---- MODULE Spec2Model ----
(***************************************************************************)
(* A model of hgdecode/loaders.py: the loading pipeline                    *)
(* load_and_preprocess_data and its two consumers ml_loader and dl_loader. *)
(*                                                                         *)
(* A continuous recording (cnt) is a record                                *)
(*   ch_names  the sensors it holds                                        *)
(*   sfreq     its sampling frequency in Hz                                *)
(*   n_samples its length in samples                                       *)
(*   events    cnt.info['events']: a sequence of [onset, code], by onset   *)
(*   data      ch -> the sequence of amplitudes of that sensor             *)
(*   applied   the transforms applied to the data since it was read        *)
(* An optional value (Python's None or a value) is a sequence of length    *)
(* at most one: None is << >> and the value v is <<v>>.                    *)
(*                                                                         *)
(* The library routines the loaders call (the BBCI reader, the             *)
(* concatenator, the segmenter, the channel selector, the resampler, the   *)
(* band-pass filter) are modelled by their contracts.  The segmenter       *)
(* yields one trial per marker whose code is in name_to_start_codes and    *)
(* whose window lies inside the recording.  The values of a resampled or   *)
(* standardized signal are not computed: `applied` records that the        *)
(* transform ran, and the recording's length, frequency and markers are    *)
(* what the transform leaves.                                              *)
(*                                                                         *)
(* Spec runs the loaders on short recordings that may hold an artifact and *)
(* markers of an unmapped code; SpecLong runs them on long clean ones.     *)
(***************************************************************************)
EXTENDS Integers, Sequences, FiniteSets, TLC

\* ------------------------------------------------------------------ bounds
\* samples in one recording file
FileLen == 2
\* event markers in one recording file, at most
MaxEvents == 2
\* samples, and markers at most, in one file of the long recordings
MaxTotal == 32

\* ------------------------------------------------------- program constants
\* loaders.py:71, the amplitude a clean trial stays below
Threshold == 800

None == << >>
Some(v) == <<v>>

\* ------------------------------------------------------------ input sets
\* sensors a recording file holds
FileChannels == {"C3", "EOG"}
\* the sampling frequency of a recording file, Hz
FileSfreqs == {1000}
\* the marker codes found in the files: 1 is in name_to_start_codes, 9 is not
EventCodes == {1, 9}
\* the caller's name_to_start_codes, as the sequence of <<name, code>>
name_to_start_codes == <<<<"Right", 1>>, <<"Left", 2>>>>
\* the caller's channel_names: one the files hold, or one they do not
ChannelNameSets == {{"C3"}, {"C3", "Fz"}}
\* the caller's resampling_freq
ResamplingFreqs == {None, Some(500)}
\* the caller's clean_ival_ms and epoch_ival_ms (the defaults (0, 4000) and
\* (-500, 4000) scaled to the files' length)
CleanIvals == {<<0, 1>>}
EpochIvals == {<<-1, 1>>, <<0, 1>>}
\* the amplitudes of an artifact, with the sensor that carries it
ArtifactKinds == {<<"C3", 799>>, <<"C3", -800>>, <<"EOG", 801>>}

\* --------------------------------------------------------- numeric helpers
Abs(x) == IF x < 0 THEN -x ELSE x

Max2(a, b) == IF a >= b THEN a ELSE b

Min2(a, b) == IF a <= b THEN a ELSE b

\* numpy.ceil of the rational n/d, d > 0
Ceil(n, d) == -((-n) \div d)

\* numpy.round of the rational n/d, d > 0: to the nearest integer, a tie to
\* the even one
NumpyRound(n, d) ==
    LET q == n \div d
        r == n - q * d
    IN  IF 2 * r < d THEN q
        ELSE IF 2 * r > d THEN q + 1
        ELSE IF q % 2 = 0 THEN q ELSE q + 1

\* numpy.max of a non-empty set of integers
SetMax(S) == CHOOSE x \in S : \A y \in S : x >= y

RECURSIVE SeqSum(_)
\* numpy.sum of a sequence of integers
SeqSum(s) ==
    IF s = << >> THEN 0 ELSE s[1] + SeqSum(Tail(s))

\* ------------------------------------------------------- numpy indexing
\* Python's slice a[lo:hi] on a sequence: a negative bound counts from the
\* end, and both bounds are clamped to the sequence
SliceBound(i, n) == IF i < 0 THEN Max2(n + i, 0) ELSE Min2(i, n)

PySlice(a, lo, hi) ==
    SubSeq(a, SliceBound(lo, Len(a)) + 1, SliceBound(hi, Len(a)))

\* a[lo:], the slice with no upper bound
PySliceFrom(a, lo) == PySlice(a, lo, Len(a))

\* numpy.arange(n): 0, 1, ..., n-1
arange(n) == [i \in 1..n |-> i - 1]

\* a[idx] for an integer index array: every index must lie in the array
TakeInBounds(a, idx) == \A k \in 1..Len(idx) : idx[k] < Len(a)

Take(a, idx) == [k \in 1..Len(idx) |-> a[idx[k] + 1]]

\* a[mask] for a boolean mask of the array's length: the entries at the
\* true positions, in order
RECURSIVE BoolIndex(_, _)
BoolIndex(a, mask) ==
    IF a = << >> \/ mask = << >> THEN << >>
    ELSE (IF mask[1] THEN <<a[1]>> ELSE << >>) \o BoolIndex(Tail(a), Tail(mask))

\* mask.astype(int)
AsInt(mask) == [k \in 1..Len(mask) |-> IF mask[k] THEN 1 ELSE 0]

\* ------------------------------------------------------ recording files
RECURSIVE SortedSeq(_)
\* the elements of a finite set of integers, ascending
SortedSeq(S) ==
    IF S = {} THEN << >>
    ELSE LET m == CHOOSE x \in S : \A y \in S : x <= y
         IN  <<m>> \o SortedSeq(S \ {m})

\* the marker lists a file can hold: at most MaxEvents markers, at distinct
\* samples of the file, in onset order
EventLists ==
    UNION { { [k \in 1..Cardinality(S) |->
                 [onset |-> SortedSeq(S)[k], code |-> f[SortedSeq(S)[k]]]]
              : f \in [S -> EventCodes] }
            : S \in { T \in SUBSET (0..(FileLen - 1)) : Cardinality(T) <= MaxEvents } }

\* the signal of a file: flat, or flat with one artifact at its first sample
FlatData == [ch \in FileChannels |-> [i \in 1..FileLen |-> 0]]

FileData ==
    {FlatData} \cup
    { [FlatData EXCEPT ![k[1]] = [i \in 1..FileLen |-> IF i = 1 THEN k[2] ELSE 0]]
      : k \in ArtifactKinds }

\* the recordings the .mat files can hold
Recordings ==
    { [ch_names |-> FileChannels, sfreq |-> fs, n_samples |-> FileLen,
       events |-> ev, data |-> d, applied |-> << >>]
      : fs \in FileSfreqs, ev \in EventLists, d \in FileData }

\* the long recordings: a flat signal of MaxTotal samples with a marker of a
\* mapped code at each of its first n samples
LongRecordings ==
    { [ch_names |-> FileChannels, sfreq |-> fs, n_samples |-> MaxTotal,
       events |-> [k \in 1..n |-> [onset |-> k - 1, code |-> 1]],
       data |-> [ch \in FileChannels |-> [i \in 1..MaxTotal |-> 0]],
       applied |-> << >>]
      : fs \in FileSfreqs, n \in 0..MaxTotal }

\* the recordings the files under a data directory can hold
RecordingsIn(dir) == IF dir = "long" THEN LongRecordings ELSE Recordings

\* the recording before anything was read into it
NoCnt ==
    [ch_names |-> {}, sfreq |-> 0, n_samples |-> 0, events |-> << >>,
     data |-> << >>, applied |-> << >>]

\* ------------------------------------------- the collaborators' contracts
\* BBCIDataset(file_path, load_sensor_names).load(): the file's recording,
\* with every sensor when load_sensor_names is None and with the named
\* sensors otherwise
BBCILoadOk(rec, load_sensor_names) ==
    load_sensor_names = None \/ load_sensor_names[1] \subseteq rec.ch_names

BBCILoad(rec, load_sensor_names) ==
    IF load_sensor_names = None THEN rec
    ELSE [rec EXCEPT !.ch_names = load_sensor_names[1],
                     !.data = [ch \in load_sensor_names[1] |-> rec.data[ch]]]

\* concatenate_raws_with_events([a, b]): b appended to a, b's onsets moved
\* by a's length
concatenate_raws_with_events(a, b) ==
    [ch_names |-> a.ch_names, sfreq |-> a.sfreq,
     n_samples |-> a.n_samples + b.n_samples,
     events |-> a.events \o
                [k \in 1..Len(b.events) |->
                    [b.events[k] EXCEPT !.onset = @ + a.n_samples]],
     data |-> [ch \in a.ch_names |-> a.data[ch] \o b.data[ch]],
     applied |-> a.applied]

\* the label of a marker code under name_to_start_codes: the position of its
\* name, or None for a code the map does not hold
CodeLabel(code) ==
    LET at == {i \in 1..Len(name_to_start_codes) : name_to_start_codes[i][2] = code}
    IN  IF at = {} THEN None ELSE Some((CHOOSE i \in at : TRUE) - 1)

\* the trial window of a marker, in samples: ival_ms scaled to the sampling
\* frequency, the start rounded and the stop rounded up
start_sample(cnt, k, ival_ms) ==
    cnt.events[k].onset + NumpyRound(ival_ms[1] * cnt.sfreq, 1000)

stop_sample(cnt, k, ival_ms) ==
    cnt.events[k].onset + Ceil(ival_ms[2] * cnt.sfreq, 1000)

\* a marker yields a trial when its code is in the map and its window lies
\* inside the recording
IsTrial(cnt, k, ival_ms) ==
    /\ CodeLabel(cnt.events[k].code) # None
    /\ start_sample(cnt, k, ival_ms) >= 0
    /\ stop_sample(cnt, k, ival_ms) <= cnt.n_samples

\* one trial: ev is the position of its marker in cnt.info['events'], y its
\* label, X its window of the signal, and applied the transforms the signal
\* went through
TrialOf(cnt, k, ival_ms) ==
    [ev |-> k,
     y |-> CodeLabel(cnt.events[k].code)[1],
     X |-> [ch \in cnt.ch_names |->
              SubSeq(cnt.data[ch], start_sample(cnt, k, ival_ms) + 1,
                     stop_sample(cnt, k, ival_ms))],
     applied |-> cnt.applied]

RECURSIVE TrialsFrom(_, _, _)
TrialsFrom(cnt, k, ival_ms) ==
    IF k > Len(cnt.events) THEN << >>
    ELSE (IF IsTrial(cnt, k, ival_ms) THEN <<TrialOf(cnt, k, ival_ms)>> ELSE << >>)
         \o TrialsFrom(cnt, k + 1, ival_ms)

\* create_signal_target_from_raw_mne(cnt, name_to_start_codes, ival_ms): the
\* trials of the recording, in onset order
create_signal_target_from_raw_mne(cnt, ival_ms) == TrialsFrom(cnt, 1, ival_ms)

\* cnt.pick_channels(channel_names): an unknown name is fatal
PickOk(cnt, names) == names \subseteq cnt.ch_names

pick_right_channels(cnt, names) ==
    [cnt EXCEPT !.ch_names = names,
                !.data = [ch \in names |-> cnt.data[ch]],
                !.applied = Append(@, "pick")]

\* resample_cnt(cnt, new_fs): the length and the onsets rescaled to the new
\* frequency (both truncated), the signal taken at the rescaled samples
resample_cnt(cnt, new_fs) ==
    LET n == (cnt.n_samples * new_fs) \div cnt.sfreq
    IN  [cnt EXCEPT !.sfreq = new_fs,
                    !.n_samples = n,
                    !.events = [k \in 1..Len(cnt.events) |->
                                  [cnt.events[k] EXCEPT
                                     !.onset = (@ * new_fs) \div cnt.sfreq]],
                    !.data = [ch \in cnt.ch_names |->
                                [i \in 1..n |->
                                   cnt.data[ch][((i - 1) * cnt.sfreq) \div new_fs + 1]]],
                    !.applied = Append(@, "resample")]

\* standardize_cnt(cnt): the cross-channel mean removed, then the band-pass
\* between 0.1 Hz and Nyquist; the recording's shape and markers are kept
standardize_cnt(cnt) == [cnt EXCEPT !.applied = Append(@, "standardize")]

\* ------------------------------------------------------------ pure code
\* get_data_files_paths
get_data_files_paths(subject_id, train_test_split) ==
    IF train_test_split
    THEN <<<<"train", subject_id>>, <<"test", subject_id>>>>
    ELSE <<<<"train", subject_id>>>>

\* load_cnt: the sensors asked of the reader
load_sensor_names(names, clean_on_all_channels) ==
    IF clean_on_all_channels THEN None ELSE Some(names)

\* the peak absolute amplitude of one trial, over its sensors and samples
PeakAbs(trial) ==
    SetMax({ Abs(trial.X[ch][i]) :
             ch \in DOMAIN trial.X, i \in 1..(IF DOMAIN trial.X = {} THEN 0
                                              ELSE Len(trial.X[CHOOSE c \in DOMAIN trial.X : TRUE])) })

\* the entry of one trial, were the comparison to admit the threshold itself
AmplitudeAtOrAboveIsClean(trial) == PeakAbs(trial) <= Threshold

\* get_clean_trial_mask, line 71: the entry of one trial
clean_trial_mask_entry(trial) == PeakAbs(trial) < Threshold

\* get_clean_trial_mask, lines 63-71, on an already segmented set
get_clean_trial_mask(set) ==
    [i \in 1..Len(set) |-> clean_trial_mask_entry(set[i])]

\* the split boundary, were it taken after the merge
MergedEventCount(a, b) == Len(a.events) + Len(b.events)

\* load_and_preprocess_data, line 147: the split boundary of a two-file load
split_boundary(a, b) == Len(a.events)

\* the fallback, were tot_len / 1.8 truncated
TruncatedTrainLen(tot) == (10 * tot) \div 18

\* dl_loader, line 250: round(tot_len / 1.8)
fallback_train_len(tot) == NumpyRound(10 * tot, 18)

\* the train range, were it one index longer
TrainIndexesOneMore(indexes, tl) == PySlice(indexes, 0, tl + 1)

\* dl_loader, lines 255-256: the index ranges of the two partitions
train_indexes(indexes, tl) == PySlice(indexes, 0, tl)

test_indexes(indexes, test_len) == PySliceFrom(indexes, -test_len)

\* dl_loader, lines 257-260: the valid trials among the trials of idx
count_valid(mask, idx) == SeqSum(AsInt(Take(mask, idx)))

\* the stage order, were the channels picked before the mask is computed
MaskAfterPick(stage) ==
    CASE stage = "load" -> "pick"
      [] stage = "pick" -> "mask"
      [] stage = "mask" -> "resample"
      [] stage = "resample" -> "standardize"
      [] stage = "standardize" -> "return"

\* load_and_preprocess_data, lines 159-189: the stage that follows a stage
NextStage(stage) ==
    CASE stage = "load" -> "mask"
      [] stage = "mask" -> "pick"
      [] stage = "pick" -> "resample"
      [] stage = "resample" -> "standardize"
      [] stage = "standardize" -> "return"

\* ------------------------------------------------------------------ state
VARIABLES
    pc,                \* the statement the call is at
    caller,            \* the entry point: "ml_loader" or "dl_loader"
    data_dir,          \* the argument data_dir: the directory of the recordings
    args,              \* the call's arguments, each bound where the code first reads it
    files,             \* the recording files read so far: "train"/"test" -> recording
    log_out,           \* the messages of print_manager and log.info, in order
    err,               \* the exception that ended the call, or None
    file_paths,        \* load_and_preprocess_data: file_paths
    train_cnt,         \* load_and_preprocess_data: train_cnt
    test_cnt,          \* load_and_preprocess_data: test_cnt
    cnt,               \* load_and_preprocess_data: cnt
    train_len,         \* load_and_preprocess_data: train_len (None or an integer)
    set_for_cleaning,  \* get_clean_trial_mask: set_for_cleaning
    clean_trial_mask,  \* load_and_preprocess_data: clean_trial_mask
    outputs,           \* what load_and_preprocess_data returned, or None
    ml_result,         \* what ml_loader returned, or None
    epo,               \* dl_loader: epo
    tot_len,           \* dl_loader: tot_len
    dl_train_len,      \* dl_loader: train_len after line 250
    test_len,          \* dl_loader: test_len
    new_train_len,     \* dl_loader: new_train_len
    new_test_len,      \* dl_loader: new_test_len
    dataset            \* what dl_loader handed to EEGDataset.from_epo_to_dataset, or None

loadVars == <<file_paths, train_cnt, test_cnt, cnt, train_len, files>>
maskVars == <<set_for_cleaning, clean_trial_mask>>
dlVars == <<epo, tot_len, dl_train_len, test_len, new_train_len, new_test_len, dataset>>
outVars == <<outputs, ml_result>>

vars == <<pc, caller, data_dir, args, log_out, err, loadVars, maskVars, outVars, dlVars>>

Bind(name, v) == args' = (name :> v) @@ args

Say(msgs) == log_out' = log_out \o msgs

\* an exception, were it caught and the call carried on to its return
RaiseSwallowed(e) == pc' = "return" /\ err' = Some(e)

\* an exception leaves the call: no handler catches it, nothing is returned
Raise(e) == pc' = "error" /\ err' = Some(e)

\* the state at the entry of a loader, but for data_dir
Entry ==
    /\ pc = "start"
    /\ caller \in {"ml_loader", "dl_loader"}
    /\ args = << >>
    /\ files = << >>
    /\ log_out = << >>
    /\ err = None
    /\ file_paths = << >>
    /\ train_cnt = NoCnt
    /\ test_cnt = NoCnt
    /\ cnt = NoCnt
    /\ train_len = None
    /\ set_for_cleaning = << >>
    /\ clean_trial_mask = << >>
    /\ outputs = None
    /\ ml_result = None
    /\ epo = << >>
    /\ tot_len = None
    /\ dl_train_len = None
    /\ test_len = None
    /\ new_train_len = None
    /\ new_test_len = None
    /\ dataset = None

Init == data_dir = "short" /\ Entry

InitLong == data_dir = "long" /\ Entry

\* ml_loader does not pass clean_on_all_channels: the default True applies
CleanOnAllChoices == IF caller = "ml_loader" THEN {TRUE} ELSE BOOLEAN

\* lines 120-128
GetPaths ==
    /\ pc = "start"
    /\ \E tts \in BOOLEAN :
         /\ Bind("train_test_split", tts)
         /\ file_paths' = get_data_files_paths(1, tts)
    /\ Say(<<"DATA LOADING ROUTINE", "Loading continuous data...">>)
    /\ pc' = "load"
    /\ UNCHANGED <<caller, data_dir, err, train_cnt, test_cnt, cnt, train_len, files,
                   maskVars, outVars, dlVars>>

\* lines 131-136 and 159: one file
LoadSingle ==
    /\ pc = "load"
    /\ Len(file_paths) = 1
    /\ \E names \in ChannelNameSets, coa \in CleanOnAllChoices, rec \in RecordingsIn(data_dir) :
         /\ args' = ("channel_names" :> names) @@ ("clean_on_all_channels" :> coa) @@ args
         /\ files' = ("train" :> rec) @@ files
         /\ IF BBCILoadOk(rec, load_sensor_names(names, coa))
            THEN /\ cnt' = BBCILoad(rec, load_sensor_names(names, coa))
                 /\ train_len' = None
                 /\ Say(<<"Done!!">>)
                 /\ pc' = NextStage("load")
                 /\ UNCHANGED err
            ELSE /\ Raise("ReaderError")
                 /\ UNCHANGED <<cnt, train_len, log_out>>
    /\ UNCHANGED <<caller, data_dir, file_paths, train_cnt, test_cnt, maskVars, outVars, dlVars>>

\* lines 137-141, and 156-158 for a path count that is neither one nor two
LoadTrain ==
    /\ pc = "load"
    /\ Len(file_paths) # 1
    /\ IF Len(file_paths) = 2
       THEN \E names \in ChannelNameSets, coa \in CleanOnAllChoices, rec \in RecordingsIn(data_dir) :
              /\ args' = ("channel_names" :> names) @@ ("clean_on_all_channels" :> coa) @@ args
              /\ files' = ("train" :> rec) @@ files
              /\ IF BBCILoadOk(rec, load_sensor_names(names, coa))
                 THEN /\ train_cnt' = BBCILoad(rec, load_sensor_names(names, coa))
                      /\ pc' = "load_test"
                      /\ UNCHANGED err
                 ELSE /\ Raise("ReaderError")
                      /\ UNCHANGED train_cnt
       ELSE /\ Raise("Exception")
            /\ UNCHANGED <<args, files, train_cnt>>
    /\ UNCHANGED <<caller, data_dir, log_out, file_paths, test_cnt, cnt, train_len,
                   maskVars, outVars, dlVars>>

\* lines 142-144
LoadTest ==
    /\ pc = "load_test"
    /\ \E rec \in RecordingsIn(data_dir) :
         /\ files' = ("test" :> rec) @@ files
         /\ test_cnt' =
              BBCILoad(rec, load_sensor_names(args["channel_names"],
                                              args["clean_on_all_channels"]))
    /\ pc' = "merge"
    /\ UNCHANGED <<caller, data_dir, args, log_out, err, file_paths, train_cnt, cnt, train_len,
                   maskVars, outVars, dlVars>>

\* the raw reader fails on a file (missing or malformed), lines 133, 139, 142
ReaderFails ==
    /\ pc \in {"load", "load_test"}
    /\ Raise("ReaderError")
    /\ UNCHANGED <<caller, data_dir, args, log_out, loadVars, maskVars, outVars, dlVars>>

\* lines 146-159
Merge ==
    /\ pc = "merge"
    /\ train_len' = Some(split_boundary(train_cnt, test_cnt))
    /\ cnt' = concatenate_raws_with_events(train_cnt, test_cnt)
    /\ train_cnt' = NoCnt
    /\ test_cnt' = NoCnt
    /\ Say(<<"Done!!">>)
    /\ pc' = NextStage("load")
    /\ UNCHANGED <<caller, data_dir, args, err, file_paths, files, maskVars, outVars, dlVars>>

\* lines 161-168, with get_clean_trial_mask, lines 55-82
GetCleanTrialMask ==
    /\ pc = "mask"
    /\ \E ival \in CleanIvals :
         /\ Bind("clean_ival_ms", ival)
         /\ set_for_cleaning' = create_signal_target_from_raw_mne(cnt, ival)
    /\ clean_trial_mask' = get_clean_trial_mask(set_for_cleaning')
    /\ Say(<<"Getting clean trial mask...", "Clean trials", "DONE!!">>)
    /\ pc' = NextStage("mask")
    /\ UNCHANGED <<caller, data_dir, err, loadVars, outVars, dlVars>>

\* lines 170-173
PickRightChannels ==
    /\ pc = "pick"
    /\ IF PickOk(cnt, args["channel_names"])
       THEN /\ cnt' = pick_right_channels(cnt, args["channel_names"])
            /\ Say(<<"Picking only right channels...", "DONE!!">>)
            /\ pc' = NextStage("pick")
            /\ UNCHANGED err
       ELSE /\ Raise("ChannelError")
            /\ Say(<<"Picking only right channels...">>)
            /\ UNCHANGED cnt
    /\ UNCHANGED <<caller, data_dir, args, file_paths, train_cnt, test_cnt, train_len, files,
                   maskVars, outVars, dlVars>>

\* lines 175-182
Resample ==
    /\ pc = "resample"
    /\ \E rf \in ResamplingFreqs :
         /\ Bind("resampling_freq", rf)
         /\ IF rf # None
            THEN /\ cnt' = resample_cnt(cnt, rf[1])
                 /\ Say(<<"Resampling continuous data...", "DONE!!">>)
            ELSE UNCHANGED <<cnt, log_out>>
    /\ pc' = NextStage("resample")
    /\ UNCHANGED <<caller, data_dir, err, file_paths, train_cnt, test_cnt, train_len, files,
                   maskVars, outVars, dlVars>>

\* lines 184-187
Standardize ==
    /\ pc = "standardize"
    /\ cnt' = standardize_cnt(cnt)
    /\ Say(<<"Standardizing continuous data...", "DONE!!">>)
    /\ pc' = NextStage("standardize")
    /\ UNCHANGED <<caller, data_dir, args, err, file_paths, train_cnt, test_cnt, train_len, files,
                   maskVars, outVars, dlVars>>

\* line 189: back in the caller, at line 209 or at line 234
Return ==
    /\ pc = "return"
    /\ outputs' = Some(<<cnt, clean_trial_mask, train_len>>)
    /\ pc' = IF caller = "ml_loader" THEN "ml_return" ELSE "epoching"
    /\ UNCHANGED <<caller, data_dir, args, log_out, err, loadVars, maskVars, ml_result, dlVars>>

\* ml_loader, line 209
MlReturn ==
    /\ pc = "ml_return"
    /\ ml_result' = Some(<<outputs[1][1], outputs[1][2]>>)
    /\ pc' = "done"
    /\ UNCHANGED <<caller, data_dir, args, log_out, err, loadVars, maskVars, outputs, dlVars>>

\* dl_loader, lines 234-245
Epoching ==
    /\ pc = "epoching"
    /\ \E ival \in EpochIvals :
         /\ Bind("epoch_ival_ms", ival)
         /\ epo' = create_signal_target_from_raw_mne(outputs[1][1], ival)
    /\ tot_len' = Some(Len(epo'))
    /\ Say(<<"CREATING EEG DATASET FOR DL", "Epoching...", "DONE!!">>)
    /\ pc' = "dims"
    /\ UNCHANGED <<caller, data_dir, err, loadVars, maskVars, outVars,
                   dl_train_len, test_len, new_train_len, new_test_len, dataset>>

\* dl_loader, lines 247-261.  With train_len None the fallback of line 250 is
\* a numpy float: a numpy that refuses a float as a slice bound raises at
\* line 255, an older one takes its integer value.  Lines 257-258 raise on
\* an index the mask does not hold.
DetermineSetsDimensions ==
    /\ pc = "dims"
    /\ LET mask == outputs[1][2]
           tl == IF outputs[1][3] = None THEN fallback_train_len(tot_len[1])
                 ELSE outputs[1][3][1]
           tst == tot_len[1] - tl
           indexes == arange(tot_len[1])
           tri == train_indexes(indexes, tl)
           tei == test_indexes(indexes, tst)
       IN  /\ dl_train_len' = Some(tl)
           /\ test_len' = Some(tst)
           /\ \E float_bound_taken \in BOOLEAN :
                IF outputs[1][3] = None /\ ~float_bound_taken
                THEN /\ Raise("TypeError")
                     /\ Say(<<"Determining sets dimensions...">>)
                     /\ UNCHANGED <<new_train_len, new_test_len>>
                ELSE IF ~(TakeInBounds(mask, tri) /\ TakeInBounds(mask, tei))
                THEN /\ Raise("IndexError")
                     /\ Say(<<"Determining sets dimensions...">>)
                     /\ UNCHANGED <<new_train_len, new_test_len>>
                ELSE /\ new_train_len' = Some(count_valid(mask, tri))
                     /\ new_test_len' = Some(count_valid(mask, tei))
                     /\ Say(<<"Determining sets dimensions...", "DONE!!">>)
                     /\ pc' = "cut"
                     /\ UNCHANGED err
    /\ UNCHANGED <<caller, data_dir, args, loadVars, maskVars, outVars, epo, tot_len, dataset>>

\* dl_loader, lines 263-274.  A boolean mask whose length is not the number
\* of epochs raises in a numpy that checks it; an older one takes the epochs
\* at the mask's true positions, and raises when one lies past the last epoch.
CutAndBuild ==
    /\ pc = "cut"
    /\ LET mask == outputs[1][2]
       IN  \E length_checked \in BOOLEAN :
             IF \/ Len(mask) = Len(epo)
                \/ /\ ~length_checked
                   /\ \A i \in 1..Len(mask) : mask[i] => i <= Len(epo)
             THEN /\ epo' = BoolIndex(epo, mask)
                  /\ dataset' = Some([epo |-> epo',
                                      train_len |-> new_train_len[1],
                                      test_len |-> new_test_len[1]])
                  /\ Say(<<"Creating EEGDataset instance...", "DONE!!">>)
                  /\ pc' = "done"
                  /\ UNCHANGED err
             ELSE /\ Raise("IndexError")
                  /\ Say(<<"Creating EEGDataset instance...">>)
                  /\ UNCHANGED <<epo, dataset>>
    /\ UNCHANGED <<caller, data_dir, args, loadVars, maskVars, outVars, tot_len,
                   dl_train_len, test_len, new_train_len, new_test_len>>

Next ==
    \/ GetPaths
    \/ LoadSingle
    \/ LoadTrain
    \/ LoadTest
    \/ ReaderFails
    \/ Merge
    \/ GetCleanTrialMask
    \/ PickRightChannels
    \/ Resample
    \/ Standardize
    \/ Return
    \/ MlReturn
    \/ Epoching
    \/ DetermineSetsDimensions
    \/ CutAndBuild

Spec == Init /\ [][Next]_vars

\* the same program on the long recordings
SpecLong == InitLong /\ [][Next]_vars

\* ----------------------------------------------------------------- claims
\* the arguments read so far
TwoFiles == "train_test_split" \in DOMAIN args /\ args["train_test_split"]
OneFile == "train_test_split" \in DOMAIN args /\ ~args["train_test_split"]
Bound(name) == name \in DOMAIN args

\* the number of true entries of a mask among the positions lo+1 .. hi
ValidCount(mask, lo, hi) ==
    Cardinality({i \in 1..Len(mask) : lo < i /\ i <= hi /\ mask[i]})

\* the trials of s at the positions lo+1 .. hi whose mask entry is true, in order
ValidRange(s, mask, lo, hi) ==
    LET idx == SortedSeq({i \in 1..Len(s) : lo < i /\ i <= hi /\ i <= Len(mask) /\ mask[i]})
    IN  [k \in 1..Len(idx) |-> s[idx[k]]]

\* the recording as the reader delivered it, merged for a two-file load
RawCnt ==
    LET lsn == load_sensor_names(args["channel_names"], args["clean_on_all_channels"])
    IN  IF TwoFiles
        THEN concatenate_raws_with_events(BBCILoad(files["train"], lsn),
                                          BBCILoad(files["test"], lsn))
        ELSE BBCILoad(files["train"], lsn)

\* C1: for a mask over the total trials and 0 <= train_len <= total,
\* new_train_len is the number of valid trials with original index in
\* [0, train_len) and new_test_len the number of valid trials with original
\* index in [train_len, total).  Stated for the two-file loads, whose
\* train_len is the integer the orchestrator returned.
C1_CountsFollowRanges ==
    (/\ new_train_len # None
     /\ TwoFiles
     /\ Len(outputs[1][2]) = tot_len[1]
     /\ 0 <= dl_train_len[1]
     /\ dl_train_len[1] <= tot_len[1])
    => /\ new_train_len[1] = ValidCount(outputs[1][2], 0, dl_train_len[1])
       /\ new_test_len[1] = ValidCount(outputs[1][2], dl_train_len[1], tot_len[1])

\* C2: after the global filtering, the first new_train_len entries of the
\* filtered epochs are the valid trials of the original range [0, train_len),
\* in order, and the remaining entries are the valid trials of the original
\* range [train_len, total).
C2_PrefixIsValidTrain ==
    dataset # None =>
      LET orig == create_signal_target_from_raw_mne(outputs[1][1], args["epoch_ival_ms"])
          mask == outputs[1][2]
          f == dataset[1].epo
          n == dataset[1].train_len
      IN  /\ n <= Len(f)
          /\ SubSeq(f, 1, n) = ValidRange(orig, mask, 0, dl_train_len[1])
          /\ SubSeq(f, n + 1, Len(f)) = ValidRange(orig, mask, dl_train_len[1], Len(orig))

C2_Witness ==
    /\ dataset # None
    /\ dataset[1].train_len >= 1
    /\ Len(dataset[1].epo) > dataset[1].train_len
    /\ \E i \in 1..Len(outputs[1][2]) : ~outputs[1][2][i]
    /\ \E i \in 1..Len(outputs[1][2]) : outputs[1][2][i] /\ i <= dl_train_len[1]

\* C3: for a two-file load, the counts handed to the dataset builder satisfy
\* new_train_len + new_test_len = total trials - rejected trials = length of
\* the filtered epochs.  Stated for the loads whose mask has one entry per
\* epoch.
C3_CountsSumToValid ==
    (dataset # None /\ TwoFiles /\ Len(outputs[1][2]) = tot_len[1]) =>
      LET mask == outputs[1][2]
          rejected == Cardinality({i \in 1..Len(mask) : ~mask[i]})
      IN  /\ dataset[1].train_len + dataset[1].test_len = tot_len[1] - rejected
          /\ dataset[1].train_len + dataset[1].test_len = Len(dataset[1].epo)

\* C4: the mask has one entry per epoch of the final segmentation, and mask
\* entry i belongs to the marker of epoch i.
C4_MaskAlignsWithEpochs ==
    pc = "dims" =>
      /\ Len(clean_trial_mask) = Len(epo)
      /\ \A i \in 1..Len(epo) :
           i <= Len(set_for_cleaning) /\ set_for_cleaning[i].ev = epo[i].ev

\* C5: for a two-file load, in the segmentation of the merged recording the
\* trials with index < train_len are the trials of the train file and the
\* others are the trials of the test file.
C5_BoundarySeparatesFiles ==
    (TwoFiles /\ Bound("clean_ival_ms")) =>
      \A i \in 1..Len(set_for_cleaning) :
        (i - 1 < train_len[1]) <=> (set_for_cleaning[i].ev <= Len(files["train"].events))

\* C6: for a two-file load, the split boundary is the number of markers of
\* the train file, whatever the test file holds, from the merge to the
\* return: no later stage changes it.
C6_BoundaryIsTrainMarkerCount ==
    /\ (TwoFiles /\ pc \in {"mask", "pick", "resample", "standardize", "return"})
         => train_len = Some(Len(files["train"].events))
    /\ (TwoFiles /\ outputs # None)
         => outputs[1][3] = Some(Len(files["train"].events))

C6_Witness ==
    /\ TwoFiles
    /\ outputs # None
    /\ Len(files["test"].events) > 0
    /\ Len(files["train"].events) > 0
    /\ args["resampling_freq"] # None
    /\ \E i \in 1..Len(clean_trial_mask) : ~clean_trial_mask[i]

\* C7: for a single-file load the split boundary is None, and dl_loader uses
\* train_len = round(total / 1.8), the integer nearest to total / 1.8, and
\* test_len = total - train_len, with 0 <= train_len <= total.
C7_FallbackSplit ==
    /\ (OneFile /\ outputs # None) => outputs[1][3] = None
    /\ (OneFile /\ dl_train_len # None) =>
         /\ dl_train_len[1] + test_len[1] = tot_len[1]
         /\ 0 <= dl_train_len[1]
         /\ dl_train_len[1] <= tot_len[1]
         /\ test_len[1] >= 0
         /\ Abs(18 * dl_train_len[1] - 10 * tot_len[1]) <= 9

C7_Witness ==
    /\ OneFile
    /\ outputs # None
    /\ new_train_len # None
    /\ tot_len[1] = 10
    /\ dl_train_len[1] = 6
    /\ test_len[1] = 4

\* the stage announcements of load_and_preprocess_data among the messages
StageMessages ==
    {"Loading continuous data...", "Getting clean trial mask...",
     "Picking only right channels...", "Resampling continuous data...",
     "Standardizing continuous data..."}

Announced == SelectSeq(log_out, LAMBDA m : m \in StageMessages)

\* C8: load_and_preprocess_data runs load/merge, masking, channel selection,
\* optional resampling, standardization in that order: when it returns, the
\* mask was computed once and is the mask of the recording as the reader
\* delivered it (every loaded sensor, no transform applied); resampling ran
\* exactly when resampling_freq was given and otherwise the recording kept
\* its length, frequency and markers; standardization was the last transform.
C8_StagesInOrder ==
    outputs # None =>
      LET rf == args["resampling_freq"]
          out == outputs[1][1]
      IN  /\ Announced =
               <<"Loading continuous data...", "Getting clean trial mask...",
                 "Picking only right channels...">>
               \o (IF rf # None THEN <<"Resampling continuous data...">> ELSE << >>)
               \o <<"Standardizing continuous data...">>
          /\ outputs[1][2] =
               get_clean_trial_mask(
                 create_signal_target_from_raw_mne(RawCnt, args["clean_ival_ms"]))
          /\ \A i \in 1..Len(set_for_cleaning) :
               /\ set_for_cleaning[i].applied = << >>
               /\ DOMAIN set_for_cleaning[i].X = RawCnt.ch_names
          /\ out.applied =
               <<"pick">> \o (IF rf # None THEN <<"resample">> ELSE << >>)
               \o <<"standardize">>
          /\ rf = None =>
               /\ out.sfreq = RawCnt.sfreq
               /\ out.n_samples = RawCnt.n_samples
               /\ out.events = RawCnt.events
          /\ rf # None => out.sfreq = rf[1]
          /\ outputs[1][3] = train_len

C8_Witness ==
    /\ outputs # None
    /\ args["resampling_freq"] # None
    /\ args["clean_on_all_channels"]
    /\ \E i \in 1..Len(clean_trial_mask) :
         /\ ~clean_trial_mask[i]
         /\ \A s \in 1..Len(set_for_cleaning[i].X["C3"]) : set_for_cleaning[i].X["C3"][s] = 0

\* the absolute amplitudes of one trial, over its sensors and samples
TrialAmplitudes(trial) ==
    UNION { { Abs(trial.X[ch][s]) : s \in 1..Len(trial.X[ch]) } : ch \in DOMAIN trial.X }

PipelineErrors == {Some("ReaderError"), Some("Exception"), Some("ChannelError")}

\* C10: a failure ends the call at once: the call is at its error exit with
\* the cause it was raised with, no stage runs after it, and nothing was
\* returned by the function it was raised in or by its caller.
C10_NoPartialResult ==
    err # None =>
      /\ pc = "error"
      /\ ml_result = None
      /\ dataset = None
      /\ err \in PipelineErrors => outputs = None
      /\ err \in PipelineErrors => epo = << >>
      /\ err = Some("ChannelError") => cnt.applied = << >>
      /\ err = Some("ReaderError") => clean_trial_mask = << >> /\ cnt = NoCnt

C10_ErrorIsFinal == [][pc # "error"]_vars

C10_FailureAborts == [](C10_NoPartialResult) /\ C10_ErrorIsFinal

C10_Witness ==
    /\ pc = "error"
    /\ err = Some("ChannelError")
    /\ TwoFiles
    /\ clean_trial_mask # << >>
====
